---- MODULE Spec2Model ----
(***************************************************************************)
(* A model of backend/eda_engine.py: the report sanitizer clean_json, the   *)
(* date-format detector, the missing-value imputer, the IQR outlier         *)
(* detector, the histogram builder, the insights generator and the          *)
(* orchestrator perform_eda.                                                *)
(*                                                                          *)
(* The pure functions of the engine are operators; each is exercised by a   *)
(* small state machine of its own (SpecJson, SpecDate, SpecImpute,          *)
(* SpecProfile) whose Init draws the inputs from bounded sets, and Spec is  *)
(* perform_eda itself, one action per stage of the pipeline.                *)
(***************************************************************************)
EXTENDS Integers, Sequences, FiniteSets, TLC

VARIABLES
    \* clean_json driver
    jpc,            \* "start" | "cleaned" | "recleaned"
    obj,            \* the value handed to clean_json
    cleaned,        \* clean_json(obj)
    recleaned,      \* clean_json(clean_json(obj))
    \* detect_date_format driver
    dpc,            \* "start" | "done"
    series,         \* the column handed to detect_date_format
    detected,       \* the pattern it returned, or NoFmt
    \* handle_missing_values driver
    mpc,            \* "start" | "once" | "twice"
    mv_in,          \* the frame handed to handle_missing_values
    mv_out,         \* what it returned: df, handling_report, before_snapshot
    mv_again,       \* what it returned when applied to mv_out.df
    \* detect_outliers and the histogram step on a cleaned frame
    spc,            \* "start" | "outliers" | "histograms" | "raised"
    s_df,           \* the cleaned frame
    s_outliers,     \* detect_outliers(s_df, numeric_cols)
    s_histograms,   \* the histograms of step 7
    \* perform_eda
    pc,             \* "start" | ... | "profiled" | "insights" | "done" | "raised"
    caller_df,      \* the argument as the caller passed it
    heap,           \* the frames that exist, by reference
    df_ref,         \* the local name df: a reference into heap
    shape,          \* rows, columns = df.shape, and nunique_data
    dates,          \* detected_dates and date_format_map
    missing,        \* handling_report and before_snapshot
    profile,        \* column types, outlier_report, histograms, duplicates
    result,         \* the report perform_eda returns
    insights        \* the lines of generate_insights

jsonVars == <<jpc, obj, cleaned, recleaned>>
dateVars == <<dpc, series, detected>>
imputeVars == <<mpc, mv_in, mv_out, mv_again>>
profileVars == <<spc, s_df, s_outliers, s_histograms>>
edaVars == <<pc, caller_df, heap, df_ref, shape, dates, missing, profile, result, insights>>
vars == <<jsonVars, dateVars, imputeVars, profileVars, edaVars>>

\* ---------------------------------------------------------------------
\* Bounds of the model
\* ---------------------------------------------------------------------
MaxDepth == 2       \* nesting depth of the dicts and lists given to clean_json
MaxLen == 2         \* entries per dict or list given to clean_json
MaxRuns == 2        \* runs of equal cells in a column given to detect_date_format
MaxRows == 3        \* rows of a frame given to handle_missing_values and perform_eda
MaxValues == 5      \* cells of a numeric column given to detect_outliers and np.histogram

\* A value no operation has produced yet.
Unset == [kind |-> "unset"]

\* =====================================================================
\* SAFE JSON CONVERSION                              eda_engine.py 9-21
\* =====================================================================
\* A report is a tree of dicts [keys, vals] and lists [items] over leaves.
\* A leaf is a Python object [kind |-> "leaf", type, v]: its class and what
\* it holds (a number [p, q], "nan", "inf", "-inf", a text, None, a bool).
\* np.float64 is a subclass of the Python float; the other NumPy floating
\* scalars are not.
PyFloatTypes == {"float", "np.float64"}
NpIntegerTypes == {"np.int8", "np.int64", "np.uint32"}
NpFloatingTypes == {"np.float16", "np.float32", "np.float64", "np.longdouble"}
NonFinite == {"nan", "inf", "-inf"}

Leaf(t, v) == [kind |-> "leaf", type |-> t, v |-> v]
NoValue == [k |-> "None"]
PyNone == Leaf("NoneType", NoValue)
ListOf(items) == [kind |-> "list", items |-> items]
Dict(keys, vals) == [kind |-> "dict", keys |-> keys, vals |-> vals]

\* isinstance(obj, float), isinstance(obj, np.integer), isinstance(obj, np.floating)
IsPyFloat(o) == o.kind = "leaf" /\ o.type \in PyFloatTypes
IsNpInteger(o) == o.kind = "leaf" /\ o.type \in NpIntegerTypes
IsNpFloating(o) == o.kind = "leaf" /\ o.type \in NpFloatingTypes

\* np.isnan(obj) or np.isinf(obj)
IsNanOrInf(o) == o.v.k \in NonFinite

\* int(obj) and float(obj): the same number in the Python class
PyInt(o) == Leaf("int", o.v)
PyFloat(o) == Leaf("float", o.v)

\* line 14-16: a Python float that is NaN or infinite becomes None; any other
\* Python float leaves the if/elif chain and is returned as it is (line 21)
FloatBranch(o) == IF IsNanOrInf(o) THEN PyNone ELSE o

RECURSIVE clean_json(_)
clean_json(o) ==
    IF o.kind = "dict"
      THEN [o EXCEPT !.vals = [i \in DOMAIN o.vals |-> clean_json(o.vals[i])]]
    ELSE IF o.kind = "list"
      THEN [o EXCEPT !.items = [i \in DOMAIN o.items |-> clean_json(o.items[i])]]
    ELSE IF IsPyFloat(o) THEN FloatBranch(o)
    ELSE IF IsNpInteger(o) THEN PyInt(o)
    ELSE IF IsNpFloating(o) THEN PyFloat(o)
    ELSE o

\* The leaves a report can hold.
Num(p, q) == [k |-> "num", p |-> p, q |-> q]
StrVal(s) == [k |-> "text", s |-> s]
FloatValues == {[k |-> "nan"], [k |-> "inf"], [k |-> "-inf"], Num(3, 2)}
LeafSet ==
    {Leaf(t, v) : t \in PyFloatTypes \cup NpFloatingTypes, v \in FloatValues}
    \cup {Leaf(t, Num(7, 1)) : t \in {"int"} \cup NpIntegerTypes}
    \cup {Leaf("str", StrVal("abc")), Leaf("bool", [k |-> "bool", b |-> TRUE]), PyNone}

\* The leaves used inside containers: one of each behaviour.
InnerLeafSet ==
    { Leaf("float", [k |-> "nan"]), Leaf("float", Num(3, 2)),
      Leaf("np.float64", [k |-> "inf"]),
      Leaf("np.float32", [k |-> "nan"]), Leaf("np.float32", Num(3, 2)),
      Leaf("np.int64", Num(7, 1)), Leaf("str", StrVal("abc")), PyNone }

DictKeys == <<"k1", "k2", "k3", "k4">>
SeqsUpTo(S, n) == UNION {[1..k -> S] : k \in 0..n}
DictOf(vals) == Dict(SubSeq(DictKeys, 1, Len(vals)), vals)

RECURSIVE TreeSet(_)
TreeSet(d) ==
    IF d = 0 THEN InnerLeafSet
    ELSE LET inner == TreeSet(d - 1)
             seqs == SeqsUpTo(inner, MaxLen)
         IN  inner \cup {ListOf(s) : s \in seqs} \cup {DictOf(s) : s \in seqs}

\* Is a NaN or an infinity left anywhere in the tree?
RECURSIVE HasNonFinite(_)
HasNonFinite(o) ==
    IF o.kind = "dict" THEN \E i \in DOMAIN o.vals : HasNonFinite(o.vals[i])
    ELSE IF o.kind = "list" THEN \E i \in DOMAIN o.items : HasNonFinite(o.items[i])
    ELSE o.kind = "leaf" /\ (IsPyFloat(o) \/ IsNpFloating(o)) /\ IsNanOrInf(o)

\* =====================================================================
\* The dataset: cells, columns, frames
\* =====================================================================
\* A cell is missing (None, NaN or NaT, by the column's dtype), a string of
\* an object column, a number of a numeric column, or a timestamp of a
\* datetime64 column.  A string is held by its lexical form:
\*   text      lead/trail spaces around a body that is no number and no date
\*   num       a decimal literal
\*   date      three fields and their two separators, with or without a
\*             time of day ("none", the character before HH:MM:SS, or
\*             "minutes" for a blank and HH:MM, which no pattern reads)
\* A field of a date string is a run of w digits of value n, or a month name
\* (t = "abbr", "full", or "both" for May, which is its own abbreviation).
NA == [k |-> "na"]
Text(body, pad) == [k |-> "str", form |-> "text", body |-> body, pad |-> pad]
NumStr(n) == [k |-> "str", form |-> "num", n |-> n]
Digits(n, w) == [t |-> "num", n |-> n, w |-> w]
Month(n, t) == [t |-> t, n |-> n, w |-> 0]
DateStr(f1, s1, f2, s2, f3, time) ==
    [k |-> "str", form |-> "date", f |-> <<f1, f2, f3>>, s1 |-> s1, s2 |-> s2,
     time |-> time]
Timestamp(y, m, d, time) == [k |-> "ts", y |-> y, m |-> m, d |-> d, time |-> time]

IsNA(c) == c.k = "na"

\* Arithmetic helpers
RECURSIVE Gcd(_, _)
Gcd(a, b) == IF b = 0 THEN a ELSE Gcd(b, a % b)
Abs(x) == IF x < 0 THEN -x ELSE x
RECURSIVE SumSeq(_)
SumSeq(s) == IF s = <<>> THEN 0 ELSE Head(s) + SumSeq(Tail(s))

\* =====================================================================
\* DATE FORMAT DETECTION                             eda_engine.py 27-47
\* =====================================================================
\* A pattern is its strptime text and what that text asks for: the three
\* directives in order, the two separators and the time-of-day part.
Fmt(id, d1, s1, d2, s2, d3, time) ==
    [id |-> id, dir |-> <<d1, d2, d3>>, s1 |-> s1, s2 |-> s2, time |-> time]

DATE_FORMATS ==
    << Fmt("%Y-%m-%d", "Y", "-", "m", "-", "d", "none"),
       Fmt("%Y/%m/%d", "Y", "/", "m", "/", "d", "none"),
       Fmt("%Y.%m.%d", "Y", ".", "m", ".", "d", "none"),
       Fmt("%d/%m/%Y", "d", "/", "m", "/", "Y", "none"),
       Fmt("%d-%m-%Y", "d", "-", "m", "-", "Y", "none"),
       Fmt("%d.%m.%Y", "d", ".", "m", ".", "Y", "none"),
       Fmt("%d/%m/%y", "d", "/", "m", "/", "y", "none"),
       Fmt("%d-%m-%y", "d", "-", "m", "-", "y", "none"),
       Fmt("%m/%d/%Y", "m", "/", "d", "/", "Y", "none"),
       Fmt("%m-%d-%Y", "m", "-", "d", "-", "Y", "none"),
       Fmt("%m/%d/%y", "m", "/", "d", "/", "y", "none"),
       Fmt("%d %b %Y", "d", " ", "b", " ", "Y", "none"),
       Fmt("%d %B %Y", "d", " ", "B", " ", "Y", "none"),
       Fmt("%B %d, %Y", "B", " ", "d", ", ", "Y", "none"),
       Fmt("%b %d, %Y", "b", " ", "d", ", ", "Y", "none"),
       Fmt("%d-%b-%Y", "d", "-", "b", "-", "Y", "none"),
       Fmt("%d-%B-%Y", "d", "-", "B", "-", "Y", "none"),
       Fmt("%d %b %y", "d", " ", "b", " ", "y", "none"),
       Fmt("%Y-%m-%d %H:%M:%S", "Y", "-", "m", "-", "d", " "),
       Fmt("%d/%m/%Y %H:%M:%S", "d", "/", "m", "/", "Y", " "),
       Fmt("%m/%d/%Y %H:%M:%S", "m", "/", "d", "/", "Y", " "),
       Fmt("%Y-%m-%dT%H:%M:%S", "Y", "-", "m", "-", "d", "T") >>

NoFmt == [id |-> "None"]

\* Does the field satisfy the directive?  %Y is four digits, %y two, %m and
\* %d one or two digits in range, %b an abbreviated and %B a full month name.
FieldMatches(dir, fld) ==
    CASE dir = "Y" -> fld.t = "num" /\ fld.w = 4
      [] dir = "y" -> fld.t = "num" /\ fld.w = 2
      [] dir = "m" -> fld.t = "num" /\ fld.w \in {1, 2} /\ fld.n \in 1..12
      [] dir = "d" -> fld.t = "num" /\ fld.w \in {1, 2} /\ fld.n \in 1..31
      [] dir = "b" -> fld.t \in {"abbr", "both"}
      [] dir = "B" -> fld.t \in {"full", "both"}

\* The field of the string that the pattern reads with one of the directives.
FieldFor(fmt, s, dirs) == s.f[CHOOSE i \in 1..3 : fmt.dir[i] \in dirs]

YearOf(fmt, s) ==
    LET fld == FieldFor(fmt, s, {"Y", "y"})
    IN  IF fld.w = 4 THEN fld.n
        ELSE IF fld.n < 69 THEN 2000 + fld.n ELSE 1900 + fld.n

IsLeap(y) == (y % 4 = 0 /\ y % 100 # 0) \/ y % 400 = 0
DaysInMonth(y, m) ==
    IF m = 2 THEN (IF IsLeap(y) THEN 29 ELSE 28)
    ELSE IF m \in {4, 6, 9, 11} THEN 30 ELSE 31

\* pd.to_datetime(value, format=fmt, errors="coerce") on one cell: the
\* timestamp when the whole string matches the pattern and names a day of the
\* calendar, missing (NaT) otherwise.
Strptime(fmt, c) ==
    IF c.k # "str" \/ c.form # "date" THEN NA
    ELSE IF c.s1 # fmt.s1 \/ c.s2 # fmt.s2 \/ c.time # fmt.time THEN NA
    ELSE IF \E i \in 1..3 : ~FieldMatches(fmt.dir[i], c.f[i]) THEN NA
    ELSE LET y == YearOf(fmt, c)
             m == FieldFor(fmt, c, {"m", "b", "B"}).n
             d == FieldFor(fmt, c, {"d"}).n
         IN  IF d > DaysInMonth(y, m) THEN NA
             ELSE Timestamp(y, m, d, fmt.time # "none")

\* A series is a sequence of runs [cell, n]: n equal cells in a row.
Run(c, n) == [cell |-> c, n |-> n]
RunLen(s) == SumSeq([i \in DOMAIN s |-> s[i].n])
NotNARun(r) == ~IsNA(r.cell)
DropNA(s) == SelectSeq(s, NotNARun)

\* series.head(k)
RECURSIVE HeadRuns(_, _)
HeadRuns(s, k) ==
    IF s = <<>> \/ k = 0 THEN <<>>
    ELSE IF Head(s).n >= k THEN <<Run(Head(s).cell, k)>>
    ELSE <<Head(s)>> \o HeadRuns(Tail(s), k - Head(s).n)

SampleSize == 50

\* line 39: sample = series.dropna().head(50).astype(str)
Sample(ser) == HeadRuns(DropNA(ser), SampleSize)

\* line 42-43: parsed.notna().sum() for the pattern
ParsedCount(fmt, s) ==
    SumSeq([i \in DOMAIN s |-> IF IsNA(Strptime(fmt, s[i].cell)) THEN 0 ELSE s[i].n])

\* line 43 with the comparison made strict
MeetsSampleThresholdStrict(fmt, sample) ==
    10 * ParsedCount(fmt, sample) > 8 * RunLen(sample)

\* line 43: parsed.notna().sum() >= len(sample) * 0.8
MeetsSampleThreshold(fmt, sample) ==
    10 * ParsedCount(fmt, sample) >= 8 * RunLen(sample)

\* line 40-47: the patterns are tried in catalog order from position i on
RECURSIVE FirstFormatFrom(_, _, _)
FirstFormatFrom(formats, i, sample) ==
    IF i > Len(formats) THEN NoFmt
    ELSE IF MeetsSampleThreshold(formats[i], sample) THEN formats[i]
    ELSE FirstFormatFrom(formats, i + 1, sample)

detect_date_format(ser) == FirstFormatFrom(DATE_FORMATS, 1, Sample(ser))

\* =====================================================================
\* Columns and frames
\* =====================================================================
\* A column is [name, dtype, cells]; a frame is its row count and its
\* columns in order.  Rational numbers [p, q] stand for the float64 cells.
Column(name, dtype, cells) == [name |-> name, dtype |-> dtype, cells |-> cells]
Frame(nrows, cols) == [nrows |-> nrows, cols |-> cols]

Range(f) == {f[i] : i \in DOMAIN f}
CountIf(cells, P(_)) == Cardinality({i \in DOMAIN cells : P(cells[i])})
NotNA(c) == ~IsNA(c)

\* series.isnull().sum() and series.notna().sum()
IsNullSum(cells) == CountIf(cells, IsNA)
NotNaSum(cells) == CountIf(cells, NotNA)

\* Rationals in lowest terms with a positive denominator
Rat(p, q) == LET g == Gcd(Abs(p), q) IN Num(p \div g, q \div g)
RatAdd(a, b) == Rat(a.p * b.q + b.p * a.q, a.q * b.q)
RECURSIVE RatSum(_)
RatSum(s) == IF s = <<>> THEN Num(0, 1) ELSE RatAdd(Head(s), RatSum(Tail(s)))

\* series.mean(): the mean of the cells that are not missing, NaN if none is
Mean(cells) ==
    LET present == SelectSeq(cells, NotNA)
        total == RatSum(present)
    IN  IF present = <<>> THEN NA ELSE Rat(total.p, total.q * Len(present))

\* round(float(x), 4)
Round4(x) == Rat((2 * x.p * 10000 + x.q) \div (2 * x.q), 10000)

\* pd.to_numeric(series, errors="coerce"): a decimal literal becomes its
\* number, every other string becomes NaN
ToNumericCell(c) ==
    IF c.k = "num" THEN c
    ELSE IF c.k = "str" /\ c.form = "num" THEN Num(c.n, 1)
    ELSE NA
to_numeric(cells) == [i \in DOMAIN cells |-> ToNumericCell(cells[i])]
NumericDtypeOf(cells) == IF \E i \in DOMAIN cells : IsNA(cells[i]) THEN "float64" ELSE "int64"

\* pd.api.types.is_numeric_dtype
is_numeric_dtype(dtype) == dtype \in {"int64", "float64", "bool"}

\* series.str.strip(): the string without its outer spaces; a cell that is
\* no string gives NaN
StripCell(c) ==
    IF c.k # "str" THEN NA
    ELSE IF c.form = "text" THEN [c EXCEPT !.pad = FALSE]
    ELSE c
str_strip(cells) == [i \in DOMAIN cells |-> StripCell(cells[i])]

\* series.astype(str) on a column that holds no strings: every cell becomes
\* the text Python shows for it, the missing ones ("NaT", "nan") included
AsTypeStr(cells) == [i \in DOMAIN cells |-> [k |-> "str", form |-> "repr", of |-> cells[i]]]

\* The strings of the model in lexicographic order, for sorting the modes
Dig2(n) == [t |-> "num", n |-> n, w |-> 2]
Dig4(n) == [t |-> "num", n |-> n, w |-> 4]
LexSorted ==
    << DateStr(Dig2(1), "-", Dig2(2), "-", Dig4(2024), "none"),        \* 01-02-2024
       DateStr(Dig2(1), "/", Dig2(2), "/", Dig4(2024), "none"),        \* 01/02/2024
       DateStr(Dig2(1), "/", Dig2(2), "/", Dig4(2024), " "),           \* 01/02/2024 10:00:00
       DateStr(Dig2(1), "/", Dig2(2), "/", Dig2(24), "none"),          \* 01/02/24
       DateStr(Dig2(2), "/", Dig2(13), "/", Dig4(2024), "none"),       \* 02/13/2024
       DateStr(Dig2(5), " ", Month(2, "abbr"), " ", Dig4(2024), "none"),   \* 05 Feb 2024
       DateStr(Dig2(5), " ", Month(5, "both"), " ", Dig4(2024), "none"),   \* 05 May 2024
       NumStr(1),
       DateStr(Dig2(13), "/", Dig2(2), "/", Dig4(2024), "none"),       \* 13/02/2024
       DateStr(Dig4(2024), "-", Dig2(1), "-", Dig2(5), "none"),        \* 2024-01-05
       DateStr(Dig4(2024), "-", Dig2(1), "-", Dig2(5), " "),           \* 2024-01-05 10:00:00
       DateStr(Dig4(2024), "-", Dig2(1), "-", Dig2(5), "minutes"),     \* 2024-01-05 10:30
       NumStr(3),
       Text("a", FALSE),
       Text("abc", FALSE),
       Text("b", FALSE) >>
LexRank(c) ==
    IF c.form = "repr"
      THEN (IF IsNA(c.of) THEN 99999999 ELSE c.of.y * 10000 + c.of.m * 100 + c.of.d)
      ELSE CHOOSE i \in DOMAIN LexSorted : LexSorted[i] = c

\* series.mode(dropna=True): the most frequent values, sorted; empty when
\* every cell is missing
Occurrences(cells, c) == Cardinality({i \in DOMAIN cells : cells[i] = c})
Modes(cells) ==
    LET present == Range(cells) \ {NA}
    IN  {c \in present : \A d \in present : Occurrences(cells, d) <= Occurrences(cells, c)}
FirstMode(cells) ==
    CHOOSE c \in Modes(cells) : \A d \in Modes(cells) : LexRank(c) <= LexRank(d)

\* series.value_counts(dropna=False).head(10).to_dict(): the frames of the
\* model have fewer than ten rows, so no value is cut off
value_counts(cells) == {[v |-> c, n |-> Occurrences(cells, c)] : c \in Range(cells)}

\* series.fillna(value)
fillna(cells, value) == [i \in DOMAIN cells |-> IF IsNA(cells[i]) THEN value ELSE cells[i]]

\* line 60, 67, 90, 177: count > len * 0.6
MoreThan60Pct(count, len) == 10 * count > 6 * len

\* =====================================================================
\* DETERMINE COLUMN CATEGORY                         eda_engine.py 80-93
\* =====================================================================
get_col_category(col) ==
    IF is_numeric_dtype(col.dtype) THEN "Numeric"
    ELSE IF col.dtype = "object"
            /\ MoreThan60Pct(NotNaSum(to_numeric(col.cells)), Len(col.cells))
      THEN "Numeric"
    ELSE "Categorical"

\* =====================================================================
\* CAPTURE FULL "BEFORE" SNAPSHOT                    eda_engine.py 101-154
\* =====================================================================
\* line 113-123: the mean that will fill a numeric column
SnapshotNumeric(col, missing_count) ==
    LET num_series == IF col.dtype = "object" THEN to_numeric(col.cells) ELSE col.cells
        mean_val == Mean(num_series)
    IN  IF missing_count = 0
          THEN [fill_value |-> NoValue, fill_strategy |-> "No Action Needed"]
        ELSE IF ~IsNA(mean_val)
          THEN [fill_value |-> Round4(mean_val), fill_strategy |-> "Will fill with Mean"]
        ELSE [fill_value |-> NoValue, fill_strategy |-> "Mean is NaN - cannot fill"]

\* line 125-133: the mode that will fill a categorical column
SnapshotCategorical(col, missing_count) ==
    LET str_series == IF col.dtype = "object" THEN str_strip(col.cells)
                      ELSE AsTypeStr(col.cells)
    IN  IF missing_count = 0
          THEN [fill_value |-> NoValue, fill_strategy |-> "No Action Needed"]
        ELSE IF Modes(str_series) # {}
          THEN [fill_value |-> FirstMode(str_series), fill_strategy |-> "Will fill with Mode"]
        ELSE [fill_value |-> NoValue, fill_strategy |-> "No mode found - cannot fill"]

SnapshotColumn(col, total_rows) ==
    LET missing_count == IsNullSum(col.cells)
        col_category == get_col_category(col)
        fill == IF col_category = "Numeric" THEN SnapshotNumeric(col, missing_count)
                ELSE SnapshotCategorical(col, missing_count)
    IN  [ col_type |-> col_category,
          missing_count |-> missing_count,
          fill_value |-> fill.fill_value,
          fill_strategy |-> fill.fill_strategy,
          total_rows |-> total_rows,
          vc_before |-> IF col.dtype = "object" THEN value_counts(str_strip(col.cells))
                        ELSE value_counts(col.cells) ]

capture_before_snapshot(df) ==
    [i \in DOMAIN df.cols |-> SnapshotColumn(df.cols[i], df.nrows)]

\* =====================================================================
\* HANDLE MISSING VALUES                             eda_engine.py 163-231
\* =====================================================================
\* line 175-178: an object column most of whose cells are numbers is
\* replaced by its numeric conversion
CoerceColumn(col, nrows) ==
    LET converted == to_numeric(col.cells)
    IN  IF col.dtype = "object" /\ MoreThan60Pct(NotNaSum(converted), nrows)
          THEN [col EXCEPT !.cells = converted, !.dtype = NumericDtypeOf(converted)]
        ELSE col

\* line 183-190: a numeric column is filled with its mean
FillNumeric(col, missing_before) ==
    IF missing_before > 0
      THEN IF ~IsNA(Mean(col.cells))
             THEN [col |-> [col EXCEPT !.cells = fillna(col.cells, Mean(col.cells))],
                   method |-> "Filled with Mean"]
           ELSE [col |-> col, method |-> "Mean is NaN - Left Empty"]
    ELSE [col |-> col, method |-> "No Missing"]

\* line 195-208: a text column is stripped, then filled with its mode
FillCategorical(col, missing_before) ==
    LET stripped == [col EXCEPT !.cells = str_strip(col.cells)]
    IN  IF missing_before > 0
          THEN IF Modes(stripped.cells) # {}
                 THEN [col |-> [stripped EXCEPT
                                  !.cells = fillna(stripped.cells, FirstMode(stripped.cells))],
                       method |-> "Filled with Mode"]
               ELSE [col |-> stripped, method |-> "No Mode Found - Left Empty"]
        ELSE [col |-> stripped, method |-> "No Missing"]

\* line 183, 195: numeric columns, else object columns; any other dtype
\* (datetime64) is left as it is
FillColumn(col, missing_before) ==
    IF is_numeric_dtype(col.dtype) THEN FillNumeric(col, missing_before)
    ELSE IF col.dtype = "object" THEN FillCategorical(col, missing_before)
    ELSE [col |-> col, method |-> "No Missing"]

\* line 169-229: one turn of the loop; the column after it and its evidence
HandleColumn(col, nrows, snap) ==
    LET missing_before == IsNullSum(col.cells)
        filled == FillColumn(CoerceColumn(col, nrows), missing_before)
    IN  [ col |-> filled.col,
          report |->
            [ missing_before |-> missing_before,
              missing_after |-> IsNullSum(filled.col.cells),
              method |-> filled.method,
              col_type |-> snap.col_type,
              fill_value |-> snap.fill_value,
              fill_strategy |-> snap.fill_strategy,
              vc_before |-> snap.vc_before,
              vc_after |-> value_counts(filled.col.cells) ] ]

\* The loop touches one column per turn and reads nothing but that column
\* and len(df), so the turns are taken column by column.
handle_missing_values(df) ==
    LET before_snapshot == capture_before_snapshot(df)
        turn == [i \in DOMAIN df.cols |->
                   HandleColumn(df.cols[i], df.nrows, before_snapshot[i])]
    IN  [ df |-> [df EXCEPT !.cols = [i \in DOMAIN df.cols |-> turn[i].col]],
          handling_report |-> [i \in DOMAIN df.cols |-> turn[i].report],
          before_snapshot |-> before_snapshot ]

\* =====================================================================
\* OUTLIER DETECTION - IQR Method                    eda_engine.py 237-257
\* =====================================================================
RatNeg(a) == Num(-a.p, a.q)
RatSub(a, b) == RatAdd(a, RatNeg(b))
RatMul(a, b) == Rat(a.p * b.p, a.q * b.q)
RatLeq(a, b) == a.p * b.q <= b.p * a.q
RatLess(a, b) == a.p * b.q < b.p * a.q
RatFloor(a) == a.p \div a.q

\* float64 beside the finite values: the infinities a numeric column can
\* hold, and the NaN their arithmetic gives (inf - inf, 0 * inf).  A NaN
\* compares false with everything.
PosInf == [k |-> "inf"]
NegInf == [k |-> "-inf"]
NaN == [k |-> "nan"]
IsFinite(a) == a.k = "num"
Sign(a) ==
    CASE a.k = "inf" -> 1
      [] a.k = "-inf" -> -1
      [] OTHER -> IF a.p > 0 THEN 1 ELSE IF a.p < 0 THEN -1 ELSE 0
FltNeg(a) ==
    CASE a.k = "num" -> RatNeg(a)
      [] a.k = "inf" -> NegInf
      [] a.k = "-inf" -> PosInf
      [] OTHER -> NaN
FltAdd(a, b) ==
    IF a.k = "nan" \/ b.k = "nan" THEN NaN
    ELSE IF IsFinite(a) /\ IsFinite(b) THEN RatAdd(a, b)
    ELSE IF IsFinite(a) THEN b
    ELSE IF IsFinite(b) THEN a
    ELSE IF a = b THEN a
    ELSE NaN
FltSub(a, b) == FltAdd(a, FltNeg(b))
FltMul(a, b) ==
    IF a.k = "nan" \/ b.k = "nan" THEN NaN
    ELSE IF IsFinite(a) /\ IsFinite(b) THEN RatMul(a, b)
    ELSE IF Sign(a) * Sign(b) = 0 THEN NaN
    ELSE IF Sign(a) * Sign(b) > 0 THEN PosInf
    ELSE NegInf
FltLeq(a, b) ==
    IF a.k = "nan" \/ b.k = "nan" THEN FALSE
    ELSE IF IsFinite(a) /\ IsFinite(b) THEN RatLeq(a, b)
    ELSE a = b \/ a.k = "-inf" \/ b.k = "inf"
FltLess(a, b) == a.k # "nan" /\ b.k # "nan" /\ ~FltLeq(b, a)
\* round(float(x), 4)
FltRound4(x) == IF IsFinite(x) THEN Round4(x) ELSE x

\* The cells in ascending order
RECURSIVE InsertSorted(_, _)
InsertSorted(x, s) ==
    IF s = <<>> THEN <<x>>
    ELSE IF FltLeq(x, Head(s)) THEN <<x>> \o s
    ELSE <<Head(s)>> \o InsertSorted(x, Tail(s))
RECURSIVE SortCells(_)
SortCells(s) == IF s = <<>> THEN <<>> ELSE InsertSorted(Head(s), SortCells(Tail(s)))

\* numpy's linear interpolation between two neighbours a <= b at the
\* fraction t: a + (b - a) * t, taken from b's side when t >= 0.5
Lerp(a, b, t) ==
    LET diff == FltSub(b, a)
    IN  IF RatLeq(Num(1, 2), t) THEN FltSub(b, FltMul(diff, RatSub(Num(1, 1), t)))
        ELSE FltAdd(a, FltMul(diff, t))

\* series.quantile(num/den): linear interpolation between the two order
\* statistics around position (n - 1) * num / den
Quantile(cells, num, den) ==
    LET sorted == SortCells(cells)
        h == (Len(cells) - 1) * num
        lo == (h \div den) + 1
        frac == Rat(h % den, den)
    IN  IF lo = Len(cells) THEN sorted[lo]
        ELSE Lerp(sorted[lo], sorted[lo + 1], frac)

\* line 246-247: lower = Q1 - 1.5 * IQR, upper = Q3 + 1.5 * IQR
LowerBound(q1, iqr) == FltSub(q1, FltMul(Num(3, 2), iqr))
UpperBound(q3, iqr) == FltAdd(q3, FltMul(Num(3, 2), iqr))

\* line 243-256: the record of one column with at least 4 values
OutlierRecord(values) ==
    LET Q1 == Quantile(values, 1, 4)
        Q3 == Quantile(values, 3, 4)
        IQR == FltSub(Q3, Q1)
        lower == LowerBound(Q1, IQR)
        upper == UpperBound(Q3, IQR)
        outside(v) == FltLess(v, lower) \/ FltLess(upper, v)
    IN  [ outliers_count |-> CountIf(values, outside),
          lower_bound |-> FltRound4(lower),
          upper_bound |-> FltRound4(upper),
          Q1 |-> FltRound4(Q1),
          Q3 |-> FltRound4(Q3),
          IQR |-> FltRound4(IQR) ]

\* The positions of the columns that are in numeric_cols
NumericPositions(df) == {i \in DOMAIN df.cols : is_numeric_dtype(df.cols[i].dtype)}

\* line 239-242: the columns that get a record
HasOutlierRecord(df, i) ==
    i \in NumericPositions(df) /\ Len(SelectSeq(df.cols[i].cells, NotNA)) >= 4

\* The report maps the position of a column to its record
detect_outliers(df) ==
    [i \in {j \in DOMAIN df.cols : HasOutlierRecord(df, j)} |->
        OutlierRecord(SelectSeq(df.cols[i].cells, NotNA))]

\* =====================================================================
\* Step 7 - Histograms                               eda_engine.py 458-464
\* =====================================================================
HistBins == 20

RECURSIVE MinCell(_)
MinCell(s) ==
    IF Len(s) = 1 THEN s[1]
    ELSE LET rest == MinCell(Tail(s)) IN IF FltLeq(s[1], rest) THEN s[1] ELSE rest
RECURSIVE MaxCell(_)
MaxCell(s) ==
    IF Len(s) = 1 THEN s[1]
    ELSE LET rest == MaxCell(Tail(s)) IN IF FltLeq(rest, s[1]) THEN s[1] ELSE rest

\* np.histogram's range: [min, max], widened by a half on both sides when
\* all the values are equal
HistFirst(values) ==
    IF MinCell(values) = MaxCell(values) THEN RatSub(MinCell(values), Num(1, 2))
    ELSE MinCell(values)
HistLast(values) ==
    IF MinCell(values) = MaxCell(values) THEN RatAdd(MaxCell(values), Num(1, 2))
    ELSE MaxCell(values)

\* np.histogram with every bin half-open, the last one too
BinIndexHalfOpen(v, first, last) ==
    RatFloor(RatMul(RatSub(v, first), Rat(HistBins * RatSub(last, first).q, RatSub(last, first).p)))

\* np.histogram: the bin of a value, counted from 0; the bins are half-open
\* but for the last, which holds the right edge
BinIndex(v, first, last) ==
    LET width == RatSub(last, first)
        idx == RatFloor(RatMul(RatSub(v, first), Rat(HistBins * width.q, width.p)))
    IN  IF idx = HistBins THEN HistBins - 1 ELSE idx

\* line 463-464: counts, bins = np.histogram(values, bins=20); the report
\* keeps bins[:-1] and counts
Histogram(values) ==
    LET first == HistFirst(values)
        last == HistLast(values)
        width == RatSub(last, first)
        edges == [e \in 1..(HistBins + 1) |->
                    RatAdd(first, RatMul(Rat(e - 1, HistBins), width))]
        inbin(b) == {i \in DOMAIN values : BinIndex(values[i], first, last) = b - 1}
    IN  [ bins |-> SubSeq(edges, 1, HistBins),
          counts |-> [b \in 1..HistBins |-> Cardinality(inbin(b))] ]

\* An exception leaving the function
Raised(error) == [kind |-> "raised", error |-> error]

\* np.histogram raises ValueError ("autodetected range ... is not finite")
\* when the least or the greatest value is infinite
RangeIsFinite(values) == IsFinite(MinCell(values)) /\ IsFinite(MaxCell(values))

\* line 460-464: one histogram per numeric column that has a value; the
\* exception of np.histogram is not caught and ends the loop
HasHistogram(df, i) ==
    i \in NumericPositions(df) /\ Len(SelectSeq(df.cols[i].cells, NotNA)) > 0
HistogramRaises(df) ==
    \E j \in DOMAIN df.cols :
        HasHistogram(df, j) /\ ~RangeIsFinite(SelectSeq(df.cols[j].cells, NotNA))
BuildHistograms(df) ==
    IF HistogramRaises(df) THEN Raised("ValueError")
    ELSE [i \in {j \in DOMAIN df.cols : HasHistogram(df, j)} |->
            Histogram(SelectSeq(df.cols[i].cells, NotNA))]

\* =====================================================================
\* try_parse_dates                                   eda_engine.py 50-73
\* =====================================================================
AsRuns(cells) == [i \in DOMAIN cells |-> Run(cells[i], 1)]

\* line 59: pd.to_datetime(df[col], format=fmt, errors="coerce")
to_datetime(cells, fmt) == [i \in DOMAIN cells |-> Strptime(fmt, cells[i])]

\* line 54-63: one turn of the loop.  An object column whose sample matches
\* a pattern is parsed with it, and replaced by the parse when more than 60%
\* of the rows of the frame parsed.  pd.to_datetime with errors="coerce" has
\* already run on the sample with the same pattern (line 42), so the except
\* branch of line 64-72 is not entered.
ParseDateColumn(col, nrows) ==
    LET fmt == IF col.dtype = "object" THEN detect_date_format(AsRuns(col.cells)) ELSE NoFmt
        parsed == to_datetime(col.cells, fmt)
    IN  IF fmt # NoFmt /\ MoreThan60Pct(NotNaSum(parsed), nrows)
          THEN [col |-> [col EXCEPT !.cells = parsed, !.dtype = "datetime64"],
                fmt |-> fmt.id]
        ELSE [col |-> col, fmt |-> "None"]

\* line 66: pd.to_datetime(df[col], infer_datetime_format=True,
\* errors="coerce"), the parse with no pattern given, as far as ISO 8601 goes:
\* a day of the calendar written year-month-day with hyphens, alone or with a
\* time of day, the seconds given or not.  Every other cell is taken as
\* unparsed.
InferCell(c) ==
    IF c.k # "str" \/ c.form # "date" THEN NA
    ELSE IF c.s1 # "-" \/ c.s2 # "-" THEN NA
    ELSE IF ~(FieldMatches("Y", c.f[1]) /\ FieldMatches("m", c.f[2]) /\ FieldMatches("d", c.f[3]))
      THEN NA
    ELSE IF c.f[3].n > DaysInMonth(c.f[1].n, c.f[2].n) THEN NA
    ELSE Timestamp(c.f[1].n, c.f[2].n, c.f[3].n, c.time # "none")
to_datetime_infer(cells) == [i \in DOMAIN cells |-> InferCell(cells[i])]

\* The positions of a set in ascending order
RECURSIVE PosSeq(_)
PosSeq(S) ==
    IF S = {} THEN <<>>
    ELSE LET least == CHOOSE x \in S : \A y \in S : x <= y
         IN  <<least>> \o PosSeq(S \ {least})

try_parse_dates(df) ==
    LET turn == [i \in DOMAIN df.cols |-> ParseDateColumn(df.cols[i], df.nrows)]
        found == {i \in DOMAIN df.cols : turn[i].fmt # "None"}
    IN  [ df |-> [df EXCEPT !.cols = [i \in DOMAIN df.cols |-> turn[i].col]],
          detected_dates |-> PosSeq(found),
          date_format_map |-> [i \in found |-> turn[i].fmt] ]

\* =====================================================================
\* MAIN EDA FUNCTION                                 eda_engine.py 424-526
\* =====================================================================
\* The caller's frame is the object at CallerRef.
CallerRef == 1

\* df = df with no copy taken: the local name is the caller's object
DfAlias(hp, ref) == [heap |-> hp, ref |-> ref]

\* line 426: df = df.copy(): a new object with the same columns and cells
DfCopy(hp, ref) == [heap |-> hp @@ ((ref + 1) :> hp[ref]), ref |-> ref + 1]

\* line 434: df.nunique(): the distinct values of each column, gaps apart
nunique(df) == [i \in DOMAIN df.cols |-> Cardinality(Range(df.cols[i].cells) \ {NA})]

\* line 443-445: select_dtypes
ColumnsOfDtype(df, dtypes) == PosSeq({i \in DOMAIN df.cols : df.cols[i].dtype \in dtypes})

\* line 473: df.duplicated().sum(): the rows equal to an earlier row
RowOf(df, r) == [i \in DOMAIN df.cols |-> df.cols[i].cells[r]]
duplicated_sum(df) ==
    IF df.cols = <<>> THEN 0
    ELSE Cardinality({r \in 1..df.nrows : \E e \in 1..(r - 1) : RowOf(df, e) = RowOf(df, r)})

\* The report as the tree clean_json walks.  The statistics, value counts,
\* correlation, preview and insights hang off the same root and hold Python
\* numbers and strings only; they are left out of the tree.
JInt(n) == Leaf("int", Num(n, 1))
JNpInt(n) == Leaf("np.int64", Num(n, 1))
JFloat(x) == Leaf("float", x)
JStr(str) == Leaf("str", StrVal(str))
JCell(c) == IF c = NoValue THEN PyNone ELSE Leaf("str", c)
ColumnNames(df, positions) == [i \in DOMAIN positions |-> df.cols[positions[i]].name]
JNames(names) == ListOf([i \in DOMAIN names |-> JStr(names[i])])

JHandling(r) ==
    Dict(<<"missing_before", "missing_after", "method", "col_type", "fill_value",
           "fill_strategy">>,
         <<JInt(r.missing_before), JInt(r.missing_after), JStr(r.method),
           JStr(r.col_type), JCell(r.fill_value), JStr(r.fill_strategy)>>)
JOutlier(r) ==
    Dict(<<"outliers_count", "lower_bound", "upper_bound", "Q1", "Q3", "IQR">>,
         <<JInt(r.outliers_count), JFloat(r.lower_bound), JFloat(r.upper_bound),
           JFloat(r.Q1), JFloat(r.Q3), JFloat(r.IQR)>>)
JHistogram(h) ==
    Dict(<<"bins", "counts">>,
         <<ListOf([i \in DOMAIN h.bins |-> JFloat(h.bins[i])]),
           ListOf([i \in DOMAIN h.counts |-> JInt(h.counts[i])])>>)
\* A dict keyed by column name, from the values by column position
JByColumn(df, f) ==
    LET positions == PosSeq(DOMAIN f)
    IN  Dict(ColumnNames(df, positions), [i \in DOMAIN positions |-> f[positions[i]]])

\* line 488-524: result
ReportTree(df, shp, dts, mis, prf) ==
    Dict(<<"overview", "nunique", "missing_handling_process", "data_quality",
           "visualization">>,
         << Dict(<<"rows", "columns", "numeric_columns", "categorical_columns",
                   "datetime_columns", "date_formats">>,
                 << JInt(shp.rows), JInt(shp.columns),
                    JNames(ColumnNames(df, prf.numeric_cols)),
                    JNames(ColumnNames(df, prf.categorical_cols)),
                    JNames(ColumnNames(df, prf.datetime_cols)),
                    JByColumn(df, [i \in DOMAIN dts.date_format_map |-> JStr(dts.date_format_map[i])]) >>),
            JByColumn(df, [i \in DOMAIN shp.nunique_data |-> JNpInt(shp.nunique_data[i])]),
            JByColumn(df, [i \in DOMAIN mis.handling_report |-> JHandling(mis.handling_report[i])]),
            Dict(<<"duplicates", "outliers">>,
                 <<JInt(prf.duplicates), JByColumn(df, [i \in DOMAIN prf.outlier_report |-> JOutlier(prf.outlier_report[i])])>>),
            Dict(<<"histograms">>, <<JByColumn(df, [i \in DOMAIN prf.histograms |-> JHistogram(prf.histograms[i])])>>) >>)

\* =====================================================================
\* SMART INSIGHTS GENERATOR                          eda_engine.py 334-418
\* =====================================================================
\* A line of the insights is held by the rule that appends it and the values
\* its format string is filled with.
Line(rule, about) == [rule |-> rule, about |-> about]

\* line 342-345 and 347-350: the count, the first five names and the "..." mark
NameList(df, positions) ==
    [ count |-> Len(positions),
      names |-> ColumnNames(df, SubSeq(positions, 1,
                                       IF Len(positions) > 5 THEN 5 ELSE Len(positions))),
      more |-> Len(positions) > 5 ]

\* line 341-345 and 346-350: one line when the list is not empty
NumericLine(df, numeric_cols) ==
    IF numeric_cols # <<>> THEN <<Line("numeric", NameList(df, numeric_cols))>> ELSE <<>>
CategoricalLine(df, categorical_cols) ==
    IF categorical_cols # <<>> THEN <<Line("categorical", NameList(df, categorical_cols))>>
    ELSE <<>>

\* line 353-364
fmt_map ==
    << <<"%Y-%m-%d", "ISO 8601 (YYYY-MM-DD) - International">>,
       <<"%d/%m/%Y", "DMY (DD/MM/YYYY) - India/UK/Australia">>,
       <<"%m/%d/%Y", "MDY (MM/DD/YYYY) - United States">>,
       <<"%d-%m-%Y", "DMY with hyphens (DD-MM-YYYY)">>,
       <<"%d.%m.%Y", "DMY with dots (DD.MM.YYYY)">>,
       <<"%d %b %Y", "Textual - 19 Feb 2025">>,
       <<"%d %B %Y", "Textual - 19 February 2025">>,
       <<"%B %d, %Y", "Textual - February 19, 2025">>,
       <<"%Y-%m-%dT%H:%M:%S", "ISO 8601 with Time">>,
       <<"auto-detected", "Auto-detected by pandas">> >>
\* fmt_map.get(fmt, fmt)
FmtLabel(fmt) ==
    IF \E i \in DOMAIN fmt_map : fmt_map[i][1] = fmt
      THEN fmt_map[CHOOSE i \in DOMAIN fmt_map : fmt_map[i][1] = fmt][2]
    ELSE fmt

\* line 352-369: a line per datetime column, or the line that there is none
DateLines(df, datetime_cols, date_format_map) ==
    IF datetime_cols # <<>>
      THEN [k \in DOMAIN datetime_cols |->
              Line("date", [ col |-> df.cols[datetime_cols[k]].name,
                             format |-> FmtLabel(IF datetime_cols[k] \in DOMAIN date_format_map
                                                   THEN date_format_map[datetime_cols[k]]
                                                 ELSE "unknown") ])]
    ELSE <<Line("date", [none |-> TRUE])>>

\* round(x, 1)
Round1(x) == Rat((2 * x.p * 10 + x.q) \div (2 * x.q), 10)

\* line 371-375: the duplicates and their share of the rows, or the line that
\* there is none
DuplicateLine(rows, duplicates) ==
    IF duplicates > 0
      THEN <<Line("duplicates", [ count |-> duplicates,
                                  pct |-> Round1(Rat(duplicates * 100, rows)) ])>>
    ELSE <<Line("duplicates", [count |-> 0])>>

\* line 377: the columns that had a missing cell, in the order of the report
MissingColumns(handling_report) ==
    LET had(i) == handling_report[i].missing_before > 0
    IN  SelectSeq(PosSeq(DOMAIN handling_report), had)

\* line 379: max(missing_cols, key=...): the first of the greatest counts
Worst(handling_report) ==
    LET mc == MissingColumns(handling_report)
        n(k) == handling_report[mc[k]].missing_before
    IN  mc[CHOOSE k \in DOMAIN mc :
                /\ \A j \in DOMAIN mc : n(j) <= n(k)
                /\ \A j \in 1..(k - 1) : n(j) < n(k)]

\* line 378-391: the summary and a line per column that had a missing cell,
\* or the line that no cell was missing
MissingLines(df, handling_report) ==
    LET mc == MissingColumns(handling_report)
    IN  IF mc # <<>>
          THEN <<Line("missing", [ count |-> Len(mc),
                                   worst |-> df.cols[Worst(handling_report)].name,
                                   most |-> handling_report[Worst(handling_report)].missing_before ])>>
               \o [k \in DOMAIN mc |->
                     Line("missing_column", [ col |-> df.cols[mc[k]].name,
                                              col_type |-> handling_report[mc[k]].col_type,
                                              missing_before |-> handling_report[mc[k]].missing_before,
                                              method |-> handling_report[mc[k]].method ])]
        ELSE <<Line("missing", [count |-> 0])>>

\* line 393-398: a line per record that counts an outlier
OutlierLines(df, outlier_report) ==
    LET counts(i) == outlier_report[i].outliers_count > 0
        hit == SelectSeq(PosSeq(DOMAIN outlier_report), counts)
    IN  [k \in DOMAIN hit |->
           Line("outliers", [ col |-> df.cols[hit[k]].name,
                              count |-> outlier_report[hit[k]].outliers_count,
                              lower_bound |-> outlier_report[hit[k]].lower_bound,
                              upper_bound |-> outlier_report[hit[k]].upper_bound ])]

RECURSIVE LcmOfDenominators(_)
LcmOfDenominators(s) ==
    IF s = <<>> THEN 1
    ELSE LET rest == LcmOfDenominators(Tail(s))
         IN  (Head(s).q * rest) \div Gcd(Head(s).q, rest)

\* line 402: df[col].skew() = n * sqrt(n - 1) / (n - 2) * m3 / m2^1.5, with m2
\* and m3 the sums of the squares and of the cubes of the deviations from the
\* mean; NaN under three values, 0 when all the values are equal.  The
\* model keeps what line 403-404 read of it: its sign, and whether
\* abs(skew) > 1, decided on the squares with the deviations scaled to
\* integers (the ratio m3^2 / m2^3 does not change with the scale).
skew(cells) ==
    LET present == SelectSeq(cells, NotNA)
        n == Len(present)
        mean == Mean(present)
        dev == [i \in DOMAIN present |-> RatSub(present[i], mean)]
        scale == LcmOfDenominators(dev)
        D == [i \in DOMAIN dev |-> dev[i].p * (scale \div dev[i].q)]
        M2 == SumSeq([i \in DOMAIN D |-> D[i] * D[i]])
        M3 == SumSeq([i \in DOMAIN D |-> D[i] * D[i] * D[i]])
    IN  IF n < 3 THEN [nan |-> TRUE, positive |-> FALSE, beyond1 |-> FALSE]
        ELSE IF M2 = 0 THEN [nan |-> FALSE, positive |-> FALSE, beyond1 |-> FALSE]
        ELSE [ nan |-> FALSE,
               positive |-> M3 > 0,
               beyond1 |-> n * n * (n - 1) * M3 * M3 > (n - 2) * (n - 2) * M2 * M2 * M2 ]

\* line 400-407: a line per numeric column whose skew is beyond 1; a column
\* holding an infinity has a NaN skew and no line
SkewLines(df, numeric_cols) ==
    LET finite(i) == \A r \in DOMAIN df.cols[i].cells :
                        IsNA(df.cols[i].cells[r]) \/ IsFinite(df.cols[i].cells[r])
        skewed(i) == finite(i) /\ skew(df.cols[i].cells).beyond1
        hit == SelectSeq(numeric_cols, skewed)
    IN  [k \in DOMAIN hit |->
           Line("skew", [ col |-> df.cols[hit[k]].name,
                          direction |-> IF skew(df.cols[hit[k]].cells).positive
                                          THEN "right (positive)" ELSE "left (negative)" ])]

\* line 410: df[col].nunique()
NUnique(col) == Cardinality(Range(col.cells) \ {NA})

\* line 409-412: a line per categorical column with more distinct values
\* than 80% of the rows
CardinalityLines(df, categorical_cols) ==
    LET high(i) == 10 * NUnique(df.cols[i]) > 8 * df.nrows
        hit == SelectSeq(categorical_cols, high)
    IN  [k \in DOMAIN hit |->
           Line("cardinality", [col |-> df.cols[hit[k]].name, n_unique |-> NUnique(df.cols[hit[k]])])]

\* line 414-416: a line per column with one distinct value
ConstantLines(df) ==
    LET constant(i) == NUnique(df.cols[i]) = 1
        hit == SelectSeq(PosSeq(DOMAIN df.cols), constant)
    IN  [k \in DOMAIN hit |-> Line("constant", [col |-> df.cols[hit[k]].name])]

\* The same lines with the skewness loop run before the outlier loop
generate_insights_skew_first(df, numeric_cols, categorical_cols, datetime_cols, handling_report, outlier_report, duplicates, date_format_map) ==
    <<Line("shape", [rows |-> df.nrows, cols |-> Len(df.cols)])>>
    \o NumericLine(df, numeric_cols)
    \o CategoricalLine(df, categorical_cols)
    \o DateLines(df, datetime_cols, date_format_map)
    \o DuplicateLine(df.nrows, duplicates)
    \o MissingLines(df, handling_report)
    \o SkewLines(df, numeric_cols)
    \o OutlierLines(df, outlier_report)
    \o CardinalityLines(df, categorical_cols)
    \o ConstantLines(df)

\* line 334-418: the lines in the order the function appends them
generate_insights(df, numeric_cols, categorical_cols, datetime_cols, handling_report, outlier_report, duplicates, date_format_map) ==
    <<Line("shape", [rows |-> df.nrows, cols |-> Len(df.cols)])>>
    \o NumericLine(df, numeric_cols)
    \o CategoricalLine(df, categorical_cols)
    \o DateLines(df, datetime_cols, date_format_map)
    \o DuplicateLine(df.nrows, duplicates)
    \o MissingLines(df, handling_report)
    \o OutlierLines(df, outlier_report)
    \o SkewLines(df, numeric_cols)
    \o CardinalityLines(df, categorical_cols)
    \o ConstantLines(df)

\* ---------------------------------------------------------------------
\* The drivers at rest: each specification runs one of them
\* ---------------------------------------------------------------------
JsonIdle == jpc = "idle" /\ obj = Unset /\ cleaned = Unset /\ recleaned = Unset
DateIdle == dpc = "idle" /\ series = <<>> /\ detected = Unset
ImputeIdle == mpc = "idle" /\ mv_in = Unset /\ mv_out = Unset /\ mv_again = Unset
ProfileIdle == spc = "idle" /\ s_df = Unset /\ s_outliers = Unset /\ s_histograms = Unset
EdaIdle ==
    /\ pc = "idle" /\ caller_df = Unset /\ heap = <<>> /\ df_ref = 0 /\ shape = Unset
    /\ dates = Unset /\ missing = Unset /\ profile = Unset /\ result = Unset
    /\ insights = Unset

\* =====================================================================
\* clean_json applied once, then to its own result
\* =====================================================================
JsonInit ==
    /\ jpc = "start"
    /\ obj \in LeafSet \cup TreeSet(MaxDepth)
    /\ cleaned = Unset
    /\ recleaned = Unset
    /\ DateIdle /\ ImputeIdle /\ ProfileIdle /\ EdaIdle

\* cleaned = clean_json(obj)
Sanitize ==
    /\ jpc = "start"
    /\ cleaned' = clean_json(obj)
    /\ jpc' = "cleaned"
    /\ UNCHANGED <<obj, recleaned, dateVars, imputeVars, profileVars, edaVars>>

\* recleaned = clean_json(cleaned)
SanitizeAgain ==
    /\ jpc = "cleaned"
    /\ recleaned' = clean_json(cleaned)
    /\ jpc' = "recleaned"
    /\ UNCHANGED <<obj, cleaned, dateVars, imputeVars, profileVars, edaVars>>

JsonNext == Sanitize \/ SanitizeAgain

SpecJson == JsonInit /\ [][JsonNext]_vars

\* C1: sanitization is idempotent: clean_json(clean_json(x)) = clean_json(x)
\* for every value x, NumPy floating scalars that are not Python floats and
\* hold NaN or an infinity included.
C1_Idempotent == jpc = "recleaned" => recleaned = cleaned

\* C2: after one application of clean_json no NaN or infinity is left in the
\* result, whatever class of real number held it and at whatever depth.
C2_NoNonFiniteLeft == jpc # "start" => ~HasNonFinite(cleaned)

\* =====================================================================
\* detect_date_format applied to a text column
\* =====================================================================
D2(n) == Digits(n, 2)
Y2024 == Digits(2024, 4)
DateCells ==
    { DateStr(Y2024, "-", D2(1), "-", D2(5), "none"),       \* 2024-01-05
      DateStr(D2(1), "/", D2(2), "/", Y2024, "none"),       \* 01/02/2024
      DateStr(D2(13), "/", D2(2), "/", Y2024, "none"),      \* 13/02/2024
      DateStr(D2(2), "/", D2(13), "/", Y2024, "none"),      \* 02/13/2024
      DateStr(D2(1), "-", D2(2), "-", Y2024, "none"),       \* 01-02-2024
      DateStr(D2(1), "/", D2(2), "/", D2(24), "none"),      \* 01/02/24
      DateStr(D2(5), " ", Month(5, "both"), " ", Y2024, "none"),   \* 05 May 2024
      DateStr(D2(5), " ", Month(2, "abbr"), " ", Y2024, "none"),   \* 05 Feb 2024
      DateStr(Y2024, "-", D2(1), "-", D2(5), " "),          \* 2024-01-05 10:00:00
      DateStr(D2(1), "/", D2(2), "/", Y2024, " "),          \* 01/02/2024 10:00:00
      Text("abc", FALSE),
      NA }
RunLens == {1, 4, 50}
RunSet == {Run(c, n) : c \in DateCells, n \in RunLens}

DateInit ==
    /\ dpc = "start"
    /\ series \in SeqsUpTo(RunSet, MaxRuns)
    /\ detected = Unset
    /\ JsonIdle /\ ImputeIdle /\ ProfileIdle /\ EdaIdle

\* detected = detect_date_format(series)
DetectDateFormat ==
    /\ dpc = "start"
    /\ detected' = detect_date_format(series)
    /\ dpc' = "done"
    /\ UNCHANGED <<series, jsonVars, imputeVars, profileVars, edaVars>>

DateNext == DetectDateFormat

SpecDate == DateInit /\ [][DateNext]_vars

\* The families of the catalog, read off a pattern's directives.
IsTextual(fmt) == \E i \in 1..3 : fmt.dir[i] \in {"b", "B"}
IsISO(fmt) == fmt.dir[1] = "Y"
IsDayFirst(fmt) == fmt.dir[1] = "d" /\ ~IsTextual(fmt)
IsMonthFirst(fmt) == fmt.dir[1] = "m"
IsDateOnly(fmt) == fmt.time = "none"
Catalog == DOMAIN DATE_FORMATS
Precede(A(_), B(_)) ==
    \A i, j \in Catalog : A(DATE_FORMATS[i]) /\ B(DATE_FORMATS[j]) => i < j

\* The values detect_date_format looks at, and how many of them a pattern parses.
Leading(s) == HeadRuns(SelectSeq(s, NotNARun), 50)
Parsing(i, s) ==
    SumSeq([r \in DOMAIN Leading(s) |->
              IF Strptime(DATE_FORMATS[i], Leading(s)[r].cell) = NA THEN 0
              ELSE Leading(s)[r].n])
Reaches80(i, s) == 10 * Parsing(i, s) >= 8 * RunLen(Leading(s))

\* The pattern returned is the earliest of the catalog that parses at least
\* 80% of the leading sample, and none is returned only when none does.
EarliestReaching80 ==
    /\ detected = NoFmt => \A i \in Catalog : ~Reaches80(i, series)
    /\ detected # NoFmt =>
         \E i \in Catalog :
            /\ detected = DATE_FORMATS[i]
            /\ Reaches80(i, series)
            /\ \A j \in 1..(i - 1) : ~Reaches80(j, series)

\* A column whose sampled strings are all valid under one day-first and one
\* month-first pattern is matched as day-first.
AmbiguousIsDayFirst ==
    \A i, j \in Catalog :
       /\ IsDayFirst(DATE_FORMATS[i]) /\ IsMonthFirst(DATE_FORMATS[j])
       /\ Leading(series) # <<>>
       /\ Parsing(i, series) = RunLen(Leading(series))
       /\ Parsing(j, series) = RunLen(Leading(series))
       => detected # NoFmt /\ IsDayFirst(detected)

IsDateOnlyISO(fmt) == IsISO(fmt) /\ IsDateOnly(fmt)
IsDateOnlyDayFirst(fmt) == IsDayFirst(fmt) /\ IsDateOnly(fmt)
IsDateOnlyMonthFirst(fmt) == IsMonthFirst(fmt) /\ IsDateOnly(fmt)
IsDateOnlyTextual(fmt) == IsTextual(fmt) /\ IsDateOnly(fmt)

\* The catalog order as the claim words it: every day-first pattern before
\* every month-first one, every month-first pattern before every textual one.
FamilyOrder ==
    /\ Precede(IsDateOnlyISO, IsDayFirst)
    /\ Precede(IsDayFirst, IsMonthFirst)
    /\ Precede(IsMonthFirst, IsTextual)

\* The catalog order that holds: among the patterns without a time of day;
\* and each month-first pattern comes after the day-first pattern that reads
\* the same strings with day and month exchanged.
SwapDayMonth(fmt) == [fmt EXCEPT !.dir = <<fmt.dir[2], fmt.dir[1], fmt.dir[3]>>]
FamilyOrderDateOnly ==
    /\ Precede(IsDateOnlyISO, IsDateOnlyDayFirst)
    /\ Precede(IsDateOnlyDayFirst, IsDateOnlyMonthFirst)
    /\ Precede(IsDateOnlyMonthFirst, IsDateOnlyTextual)
    /\ \A j \in Catalog : IsMonthFirst(DATE_FORMATS[j]) =>
          \E i \in 1..(j - 1) :
             /\ DATE_FORMATS[i].dir = SwapDayMonth(DATE_FORMATS[j]).dir
             /\ DATE_FORMATS[i].s1 = DATE_FORMATS[j].s1
             /\ DATE_FORMATS[i].s2 = DATE_FORMATS[j].s2
             /\ DATE_FORMATS[i].time = DATE_FORMATS[j].time

\* C10 as stated: detection returns the earliest pattern reaching 80% of
\* the sample, the catalog lists ISO dates before day-first before
\* month-first before textual patterns, and an ambiguous column is day-first.
C10_AsStated ==
    /\ FamilyOrder
    /\ dpc = "done" => EarliestReaching80 /\ AmbiguousIsDayFirst

\* C10 as amended: the family order holds among the patterns without a time of
\* day (the four time-of-day patterns close the catalog), and every
\* month-first pattern follows its day-first counterpart.
C10_CatalogPriority ==
    /\ FamilyOrderDateOnly
    /\ dpc = "done" => EarliestReaching80 /\ AmbiguousIsDayFirst

\* C10 witness: an ambiguous column (01/02/2024) inside a sample cut at 50
\* values was matched by the day-first pattern.
C10_Witness ==
    /\ dpc = "done"
    /\ detected = DATE_FORMATS[4]
    /\ RunLen(SelectSeq(series, NotNARun)) > 50
    /\ Parsing(9, series) = 50

\* =====================================================================
\* handle_missing_values applied to a frame, then to its own result
\* =====================================================================
\* The columns a frame can hold when imputation starts: text (object)
\* columns, native numeric columns, and columns try_parse_dates has already
\* turned into datetime64, whose unparsed cells are NaT.
ObjectCells ==
    {NA, NumStr(1), NumStr(3), Text("a", FALSE), Text("a", TRUE), Text("b", FALSE)}
FloatCells == {NA, Num(1, 1), Num(3, 1)}
IntCells == {Num(1, 1), Num(3, 1)}
DatetimeCells == {NA, Timestamp(2024, 1, 5, FALSE), Timestamp(2024, 1, 6, FALSE)}

ColumnsOfLen(name, n) ==
    {Column(name, "object", c) : c \in [1..n -> ObjectCells]}
    \cup {Column(name, "float64", c) : c \in [1..n -> FloatCells]}
    \cup {Column(name, "int64", c) : c \in [1..n -> IntCells]}
    \cup {Column(name, "datetime64", c) : c \in [1..n -> DatetimeCells]}

\* A second column beside the first: all missing, or text with no gap
CompanionsOfLen(name, n) ==
    { Column(name, "float64", [i \in 1..n |-> NA]),
      Column(name, "object", [i \in 1..n |-> Text("b", FALSE)]) }

ImputeFrames ==
    UNION { {Frame(n, <<c>>) : c \in ColumnsOfLen("c1", n)}
            \cup {Frame(n, <<c, d>>) : c \in ColumnsOfLen("c1", n),
                                       d \in CompanionsOfLen("c2", n)}
          : n \in 0..MaxRows }

ImputeInit ==
    /\ mpc = "start"
    /\ mv_in \in ImputeFrames
    /\ mv_out = Unset
    /\ mv_again = Unset
    /\ JsonIdle /\ DateIdle /\ ProfileIdle /\ EdaIdle

\* mv_out = handle_missing_values(mv_in)
HandleMissing ==
    /\ mpc = "start"
    /\ mv_out' = handle_missing_values(mv_in)
    /\ mpc' = "once"
    /\ UNCHANGED <<mv_in, mv_again, jsonVars, dateVars, profileVars, edaVars>>

\* mv_again = handle_missing_values(mv_out.df)
HandleMissingAgain ==
    /\ mpc = "once"
    /\ mv_again' = handle_missing_values(mv_out.df)
    /\ mpc' = "twice"
    /\ UNCHANGED <<mv_in, mv_out, jsonVars, dateVars, profileVars, edaVars>>

ImputeNext == HandleMissing \/ HandleMissingAgain

SpecImpute == ImputeInit /\ [][ImputeNext]_vars

Imputed == mpc \in {"once", "twice"}

\* C3: imputation is conservative: every column's evidence has
\* missing_after <= missing_before, text columns coerced to numeric included.
C3_Conservative ==
    Imputed =>
      \A i \in DOMAIN mv_out.handling_report :
         mv_out.handling_report[i].missing_after <= mv_out.handling_report[i].missing_before

\* C4: imputation is complete: a column whose evidence carries a fill value
\* has no missing cell left, whatever its dtype.
C4_Complete ==
    Imputed =>
      \A i \in DOMAIN mv_out.handling_report :
         mv_out.handling_report[i].fill_value # NoValue
           => mv_out.handling_report[i].missing_after = 0

\* Two cells hold the same value: they are equal, or the second is the first
\* as imputation normalises it (the number a literal spells, the text
\* without its outer spaces).
SameValue(a, b) ==
    \/ a = b
    \/ ToNumericCell(a) = b /\ ~IsNA(b)
    \/ StripCell(a) = b /\ ~IsNA(b)
SameCells(f, g) ==
    /\ f.nrows = g.nrows
    /\ DOMAIN f.cols = DOMAIN g.cols
    /\ \A i \in DOMAIN f.cols :
          /\ f.cols[i].name = g.cols[i].name
          /\ \A r \in DOMAIN f.cols[i].cells :
                SameValue(f.cols[i].cells[r], g.cols[i].cells[r])
NoCellMissing(f) == \A i \in DOMAIN f.cols : IsNullSum(f.cols[i].cells) = 0

\* C5: on a frame with no missing cell imputation changes no cell value
\* (normalisation apart), every column's evidence is 0 missing before, 0 after, method "No Missing",
\* and a second application to the result changes nothing.
C5_NoOpOnClean ==
    NoCellMissing(mv_in) =>
      /\ Imputed =>
           /\ SameCells(mv_in, mv_out.df)
           /\ \A i \in DOMAIN mv_out.handling_report :
                 /\ mv_out.handling_report[i].missing_before = 0
                 /\ mv_out.handling_report[i].missing_after = 0
                 /\ mv_out.handling_report[i].method = "No Missing"
      /\ mpc = "twice" => mv_again.df = mv_out.df

\* =====================================================================
\* detect_outliers and the histograms on a cleaned frame
\* =====================================================================
\* Numeric columns as imputation leaves them: numbers, means among them,
\* and the gaps it could not fill.
\* A float64 column: gaps, finite values of both signs, and an infinity (what
\* "inf" in a CSV file is read as)
ValueCells == {NA, Num(-4, 1), Num(1, 1), Num(7, 3), PosInf}
ProfileFrames ==
    UNION { {Frame(n, <<Column("c1", "float64", c)>>) : c \in [1..n -> ValueCells]}
          : n \in 0..MaxValues }

ProfileInit ==
    /\ spc = "start"
    /\ s_df \in ProfileFrames
    /\ s_outliers = Unset
    /\ s_histograms = Unset
    /\ JsonIdle /\ DateIdle /\ ImputeIdle /\ EdaIdle

\* Step 5: outlier_report = detect_outliers(df, numeric_cols)
DetectOutliers ==
    /\ spc = "start"
    /\ s_outliers' = detect_outliers(s_df)
    /\ spc' = "outliers"
    /\ UNCHANGED <<s_df, s_histograms, jsonVars, dateVars, imputeVars, edaVars>>

\* Step 7: the histograms, or the exception of np.histogram
Histograms ==
    /\ spc = "outliers"
    /\ s_histograms' = BuildHistograms(s_df)
    /\ spc' = IF HistogramRaises(s_df) THEN "raised" ELSE "histograms"
    /\ UNCHANGED <<s_df, s_outliers, jsonVars, dateVars, imputeVars, edaVars>>

ProfileNext == DetectOutliers \/ Histograms

SpecProfile == ProfileInit /\ [][ProfileNext]_vars

PresentValues(col) == SelectSeq(col.cells, NotNA)

\* C8: every outlier record, one per numeric column with at least 4
\* non-missing values, has lower_bound <= Q1 <= Q3 <= upper_bound and IQR >= 0.
C8_BoundsOrdered ==
    spc \in {"outliers", "histograms", "raised"} =>
      /\ DOMAIN s_outliers = {i \in DOMAIN s_df.cols : Len(PresentValues(s_df.cols[i])) >= 4}
      /\ \A i \in DOMAIN s_outliers :
            /\ FltLeq(s_outliers[i].lower_bound, s_outliers[i].Q1)
            /\ FltLeq(s_outliers[i].Q1, s_outliers[i].Q3)
            /\ FltLeq(s_outliers[i].Q3, s_outliers[i].upper_bound)
            /\ FltLeq(Num(0, 1), s_outliers[i].IQR)

EdaTextCells ==
    {NA, NumStr(1), Text("a", TRUE), DateStr(Dig4(2024), "-", Dig2(1), "-", Dig2(5), "none"),
     DateStr(Dig4(2024), "-", Dig2(1), "-", Dig2(5), "minutes")}
EdaColumnsOfLen(name, n) ==
    {Column(name, "object", c) : c \in [1..n -> EdaTextCells]}
    \cup {Column(name, "float64", c) : c \in [1..n -> FloatCells]}
\* A second column beside the first: as for the imputer, or numbers after a
\* gap, or infinities
EdaCompanionsOfLen(name, n) ==
    CompanionsOfLen(name, n)
    \cup { Column(name, "float64", [i \in 1..n |-> IF i = 1 THEN NA ELSE Num(3, 1)]),
           Column(name, "float64", [i \in 1..n |-> PosInf]) }
\* One row more, of gaps, zeros and ones: enough values for an outlier record
WideCells == {NA, Num(0, 1), Num(1, 1)}
WideFrames ==
    LET n == MaxRows + 1
    IN  {Frame(n, <<Column("c1", "float64", c)>>) : c \in [1..n -> WideCells]}
        \cup {Frame(n, <<Column("c1", "float64", c), d>>) :
                 c \in [1..n -> WideCells], d \in CompanionsOfLen("c2", n)}
EdaFrames ==
    WideFrames
    \cup UNION { {Frame(n, <<>>)}
                 \cup {Frame(n, <<c>>) : c \in EdaColumnsOfLen("c1", n)}
                 \cup {Frame(n, <<c, d>>) : c \in EdaColumnsOfLen("c1", n),
                                            d \in EdaCompanionsOfLen("c2", n)}
               : n \in 0..MaxRows }

Init ==
    /\ pc = "start"
    /\ caller_df \in EdaFrames
    /\ heap = (CallerRef :> caller_df)
    /\ df_ref = CallerRef
    /\ shape = Unset
    /\ dates = Unset
    /\ missing = Unset
    /\ profile = Unset
    /\ result = Unset
    /\ insights = Unset
    /\ JsonIdle /\ DateIdle /\ ImputeIdle /\ ProfileIdle

\* line 426-434: the copy, the shape, nunique
EdaCopy ==
    /\ pc = "start"
    /\ LET copy == DfCopy(heap, df_ref)
       IN  /\ heap' = copy.heap
           /\ df_ref' = copy.ref
           /\ shape' = [ rows |-> copy.heap[copy.ref].nrows,
                         columns |-> Len(copy.heap[copy.ref].cols),
                         nunique_data |-> nunique(copy.heap[copy.ref]) ]
    /\ pc' = "copied"
    /\ UNCHANGED <<caller_df, dates, missing, profile, result, insights>>
    /\ UNCHANGED <<jsonVars, dateVars, imputeVars, profileVars>>

\* line 437: Step 1, on the frame df names, in place
EdaParseDates ==
    /\ pc = "copied"
    /\ LET out == try_parse_dates(heap[df_ref])
       IN  /\ heap' = [heap EXCEPT ![df_ref] = out.df]
           /\ dates' = [ detected_dates |-> out.detected_dates,
                         date_format_map |-> out.date_format_map ]
    /\ pc' = "dated"
    /\ UNCHANGED <<caller_df, df_ref, shape, missing, profile, result, insights>>
    /\ UNCHANGED <<jsonVars, dateVars, imputeVars, profileVars>>

\* line 440: Step 2, on the frame df names, in place
EdaHandleMissing ==
    /\ pc = "dated"
    /\ LET out == handle_missing_values(heap[df_ref])
       IN  /\ heap' = [heap EXCEPT ![df_ref] = out.df]
           /\ missing' = [ handling_report |-> out.handling_report,
                           before_snapshot |-> out.before_snapshot ]
    /\ pc' = "imputed"
    /\ UNCHANGED <<caller_df, df_ref, shape, dates, profile, result, insights>>
    /\ UNCHANGED <<jsonVars, dateVars, imputeVars, profileVars>>

\* line 443-473: Steps 3, 5, 7 and 9 on the cleaned frame; the exception of
\* np.histogram leaves perform_eda
EdaProfile ==
    /\ pc = "imputed"
    /\ profile' = [ numeric_cols |-> ColumnsOfDtype(heap[df_ref], {"int64", "float64"}),
                    categorical_cols |-> ColumnsOfDtype(heap[df_ref], {"object"}),
                    datetime_cols |-> ColumnsOfDtype(heap[df_ref], {"datetime64"}),
                    outlier_report |-> detect_outliers(heap[df_ref]),
                    histograms |-> BuildHistograms(heap[df_ref]),
                    duplicates |-> duplicated_sum(heap[df_ref]) ]
    /\ pc' = IF HistogramRaises(heap[df_ref]) THEN "raised" ELSE "profiled"
    /\ result' = IF HistogramRaises(heap[df_ref]) THEN Raised("ValueError") ELSE result
    /\ UNCHANGED <<caller_df, heap, df_ref, shape, dates, missing, insights>>
    /\ UNCHANGED <<jsonVars, dateVars, imputeVars, profileVars>>

\* line 488-526: return clean_json(result)
EdaReturn ==
    /\ pc = "insights"
    /\ result' = clean_json(ReportTree(heap[df_ref], shape, dates, missing, profile))
    /\ pc' = "done"
    /\ UNCHANGED <<caller_df, heap, df_ref, shape, dates, missing, profile, insights>>
    /\ UNCHANGED <<jsonVars, dateVars, imputeVars, profileVars>>

\* line 478-481: Step 11, the insights, from the cleaned frame and the
\* reports of the steps before
EdaInsights ==
    /\ pc = "profiled"
    /\ insights' = generate_insights(heap[df_ref], profile.numeric_cols,
                                     profile.categorical_cols, profile.datetime_cols,
                                     missing.handling_report, profile.outlier_report,
                                     profile.duplicates, dates.date_format_map)
    /\ pc' = "insights"
    /\ UNCHANGED <<caller_df, heap, df_ref, shape, dates, missing, profile, result>>
    /\ UNCHANGED <<jsonVars, dateVars, imputeVars, profileVars>>

Next ==
    EdaCopy \/ EdaParseDates \/ EdaHandleMissing \/ EdaProfile \/ EdaInsights \/ EdaReturn

Spec == Init /\ [][Next]_vars

\* The value under a key of a dict of the report
HasKey(d, key) == \E i \in DOMAIN d.keys : d.keys[i] = key
Get(d, key) == d.vals[CHOOSE i \in DOMAIN d.keys : d.keys[i] = key]

EmptyDataset(f) == f.nrows = 0 \/ f.cols = <<>>

\* C6: on a dataset with no row (or no column) perform_eda runs no profiling
\* stage and returns a result with an error field instead of a report.
C6_EmptyIsError ==
    pc = "done" /\ EmptyDataset(caller_df) =>
      /\ HasKey(result, "error")
      /\ ~HasKey(result, "overview")
      /\ profile = Unset

\* C7: perform_eda never changes the caller's dataset, and the overview
\* counts of the report are the counts of that dataset.
C7_CallerUntouched ==
    /\ pc # "idle" => heap[CallerRef] = caller_df
    /\ pc = "done" =>
         /\ Get(Get(result, "overview"), "rows") = JInt(caller_df.nrows)
         /\ Get(Get(result, "overview"), "columns") = JInt(Len(caller_df.cols))

\* C7 witness: the run is over, the working frame had a column turned into
\* dates and a gap filled, and so differs from the caller's.
C7_Witness ==
    /\ pc = "done"
    /\ dates.detected_dates # <<>>
    /\ \E i \in DOMAIN missing.handling_report :
          missing.handling_report[i].missing_after < missing.handling_report[i].missing_before
    /\ heap[df_ref] # caller_df

\* A text column that no pattern of the catalog reads in its sample, and of
\* which the parse with no pattern given reads more than 60% of the rows
NeedsFallback(col, nrows) ==
    /\ col.dtype = "object"
    /\ detect_date_format(AsRuns(col.cells)) = NoFmt
    /\ MoreThan60Pct(NotNaSum(to_datetime_infer(col.cells)), nrows)

\* C11: a text column for which no catalog pattern reaches the 80% sample
\* threshold, and of which a generic parse reads more than 60% of the rows,
\* comes out of try_parse_dates converted to datetime and recorded with the
\* format "auto-detected".
C11_HeuristicFallback ==
    pc = "dated" =>
      \A i \in DOMAIN caller_df.cols :
          NeedsFallback(caller_df.cols[i], caller_df.nrows) =>
            /\ heap[df_ref].cols[i].dtype = "datetime64"
            /\ heap[df_ref].cols[i].cells = to_datetime_infer(caller_df.cols[i].cells)
            /\ \E k \in DOMAIN dates.detected_dates : dates.detected_dates[k] = i
            /\ i \in DOMAIN dates.date_format_map
            /\ dates.date_format_map[i] = "auto-detected"

\* The place of a rule in the order of the claim
RuleOrder ==
    << "shape", "numeric", "categorical", "date", "duplicates", "missing", "missing_column",
       "outliers", "skew", "cardinality", "constant" >>
RuleRank(rule) == CHOOSE k \in DOMAIN RuleOrder : RuleOrder[k] = rule
LinesOf(rule) == {i \in DOMAIN insights : insights[i].rule = rule}

\* C12: the insights start with the row/column count summary and their lines
\* come in rule order (column-type lists, date lines, duplicate line, missing
\* summary followed by its per-column lines, outlier lines, skewness lines,
\* high-cardinality lines, constant-column lines): no line of a later rule
\* precedes a line of an earlier one, and a rule whose precondition is not
\* met contributes nothing.
C12_InsightOrder ==
    pc \in {"insights", "done"} =>
      /\ Len(insights) >= 1
      /\ LinesOf("shape") = {1}
      /\ insights[1].about = [rows |-> caller_df.nrows, cols |-> Len(caller_df.cols)]
      /\ \A i, j \in DOMAIN insights :
            i < j => RuleRank(insights[i].rule) <= RuleRank(insights[j].rule)
      /\ (LinesOf("numeric") = {}) = (profile.numeric_cols = <<>>)
      /\ (LinesOf("categorical") = {}) = (profile.categorical_cols = <<>>)
      /\ Cardinality(LinesOf("numeric")) <= 1 /\ Cardinality(LinesOf("categorical")) <= 1
      /\ Cardinality(LinesOf("date")) =
            (IF profile.datetime_cols = <<>> THEN 1 ELSE Len(profile.datetime_cols))
      /\ Cardinality(LinesOf("duplicates")) = 1
      /\ Cardinality(LinesOf("missing")) = 1
      /\ Cardinality(LinesOf("missing_column")) =
            Cardinality({i \in DOMAIN missing.handling_report :
                           missing.handling_report[i].missing_before > 0})
      /\ Cardinality(LinesOf("outliers")) =
            Cardinality({i \in DOMAIN profile.outlier_report :
                           profile.outlier_report[i].outliers_count > 0})
      /\ Cardinality(LinesOf("skew")) <= Len(profile.numeric_cols)
      /\ Cardinality(LinesOf("cardinality")) <= Len(profile.categorical_cols)
      /\ Cardinality(LinesOf("constant")) <= Len(caller_df.cols)

\* C12 witness: insights with a numeric list, a missing-value summary and a
\* per-column line, an outlier line and a skewness line after it.
C12_Witness ==
    /\ pc = "insights"
    /\ LinesOf("numeric") # {}
    /\ LinesOf("missing_column") # {}
    /\ LinesOf("outliers") # {}
    /\ LinesOf("skew") # {}

====
